---- MODULE Spec2Model ----
(***************************************************************************)
(* Key pool (APIKeyManager) and extraction orchestrator                    *)
(* (extract_json_with_gemini) of src/app.py.                               *)
(*                                                                         *)
(* Python strings are modelled as sequences of one-character strings, so   *)
(* that strip(), lower() and the substring test are computed, not assumed. *)
(***************************************************************************)
EXTENDS Integers, Sequences, FiniteSets, TLC

VARIABLES
    keys,            \* APIKeyManager.keys: the list of credentials
    current_index,   \* APIKeyManager.current_index: the rotation cursor
    failed_keys,     \* APIKeyManager.failed_keys: the unavailable set
    key_stats,       \* APIKeyManager.key_stats: key -> [uses, failures]
    last,            \* the last operation, its arguments and what it returned
    run,             \* keys returned by the consecutive get_next_key() calls
    run_start,       \* the cursor when that run of calls began
    call,            \* the extract call in progress, or the last one made
    norm             \* the object handed to validate_and_clean_data, and its result

vars == <<keys, current_index, failed_keys, key_stats, last, run, run_start, call, norm>>

poolVars == <<keys, current_index, failed_keys, key_stats>>

-----------------------------------------------------------------------------
(* Policy constants and model bounds *)

MAX_RETRIES == 3

MaxKeys == 2

MaxCount == 2

MinTextLen == 50

-----------------------------------------------------------------------------
(* Strings *)

Whitespace == {" ", "\t", "\n"}

RECURSIVE LStrip(_)
LStrip(s) ==
    IF s # <<>> /\ Head(s) \in Whitespace THEN LStrip(Tail(s)) ELSE s

RECURSIVE RStrip(_)
RStrip(s) ==
    IF s # <<>> /\ s[Len(s)] \in Whitespace
    THEN RStrip(SubSeq(s, 1, Len(s) - 1))
    ELSE s

\* str.strip()
Strip(s) == RStrip(LStrip(s))

UpperLetters ==
    <<"A","B","C","D","E","F","G","H","I","J","K","L","M",
      "N","O","P","Q","R","S","T","U","V","W","X","Y","Z">>

LowerLetters ==
    <<"a","b","c","d","e","f","g","h","i","j","k","l","m",
      "n","o","p","q","r","s","t","u","v","w","x","y","z">>

LowerChar(c) ==
    IF \E i \in 1..Len(UpperLetters) : UpperLetters[i] = c
    THEN LowerLetters[CHOOSE i \in 1..Len(UpperLetters) : UpperLetters[i] = c]
    ELSE c

\* str.lower()
Lower(s) == [i \in 1..Len(s) |-> LowerChar(s[i])]

\* sub in s
Contains(s, sub) ==
    \E i \in 0..(Len(s) - Len(sub)) : SubSeq(s, i + 1, i + Len(sub)) = sub

Range(s) == {s[i] : i \in 1..Len(s)}

\* [x for x in s if P(x)]
RECURSIVE FilterNonBlank(_)
FilterNonBlank(s) ==
    IF s = <<>> THEN <<>>
    ELSE IF Strip(Head(s)) # <<>>
         THEN <<Strip(Head(s))>> \o FilterNonBlank(Tail(s))
         ELSE FilterNonBlank(Tail(s))

-----------------------------------------------------------------------------
(* Inputs *)

\* credential strings as the operator may type them: blank, padded, plain
RawKeys == { <<" ">>, <<"a">>, <<" ", "a">>, <<"b">>, <<"c", " ">> }

RECURSIVE SeqsUpTo(_, _)
SeqsUpTo(S, n) ==
    IF n = 0 THEN {<<>>}
    ELSE LET shorter == SeqsUpTo(S, n - 1)
         IN shorter \cup {Append(q, x) : q \in shorter, x \in S}

KeyLists == SeqsUpTo(RawKeys, MaxKeys)

MSG_429 == <<"4","2","9"," ","T","o","o"," ","M","a","n","y">>

MSG_RESOURCE == <<"R","E","S","O","U","R","C","E","_","E","X","H","A","U","S","T","E","D">>

MSG_Quota == <<"Q","u","o","t","a"," ","e","x","c","e","e","d","e","d">>

MSG_timeout == <<"n","e","t","w","o","r","k"," ","t","i","m","e","o","u","t">>

MSG_resource_lower == Lower(MSG_RESOURCE)

\* error texts a backend call can raise
ErrorTexts == {MSG_429, MSG_RESOURCE, MSG_Quota, MSG_timeout, MSG_resource_lower}

-----------------------------------------------------------------------------
(* APIKeyManager *)

NoStats == [uses |-> 0, failures |-> 0]

\* what an operation returned: a key, None, or a boolean
NoArg == <<>>

Did(op, key, reason, is_none, flag) ==
    [op |-> op, key |-> key, reason |-> reason, is_none |-> is_none, flag |-> flag]

\* line 40 without the strip() of the entries it keeps
RECURSIVE CleanKeysUntrimmed(_)
CleanKeysUntrimmed(input) ==
    IF input = <<>> THEN <<>>
    ELSE IF Strip(Head(input)) # <<>>
         THEN <<Head(input)>> \o CleanKeysUntrimmed(Tail(input))
         ELSE CleanKeysUntrimmed(Tail(input))

\* add_keys: the list comprehension of line 40
CleanKeys(input) == FilterNonBlank(input)

FreshStats(ks) == [k \in Range(ks) |-> NoStats]

\* the loop with line 54 lost: the cursor stays on the entry it returns
RECURSIVE ScanKeysNoAdvance(_, _, _, _)
ScanKeysNoAdvance(ks, idx, failed, attempts) ==
    IF attempts < Len(ks)
    THEN IF ks[idx + 1] \notin failed
         THEN [found |-> TRUE, key |-> ks[idx + 1], index |-> idx]
         ELSE ScanKeysNoAdvance(ks, (idx + 1) % Len(ks), failed, attempts + 1)
    ELSE [found |-> FALSE, key |-> NoArg, index |-> idx]

\* the loop with line 54 written without the modulo
RECURSIVE ScanKeysNoWrap(_, _, _, _)
ScanKeysNoWrap(ks, idx, failed, attempts) ==
    IF attempts < Len(ks) /\ idx < Len(ks)
    THEN IF ks[idx + 1] \notin failed
         THEN [found |-> TRUE, key |-> ks[idx + 1], index |-> idx + 1]
         ELSE ScanKeysNoWrap(ks, idx + 1, failed, attempts + 1)
    ELSE [found |-> FALSE, key |-> NoArg, index |-> idx]

\* the while loop of get_next_key, from cursor idx, after `attempts` entries
RECURSIVE ScanKeys(_, _, _, _)
ScanKeys(ks, idx, failed, attempts) ==
    IF attempts < Len(ks)
    THEN LET key == ks[idx + 1]
             nidx == (idx + 1) % Len(ks)
         IN IF key \notin failed
            THEN [found |-> TRUE, key |-> key, index |-> nidx]
            ELSE ScanKeys(ks, nidx, failed, attempts + 1)
    ELSE [found |-> FALSE, key |-> NoArg, index |-> idx]

\* get_next_key as a function of the pool: the key returned (or None), the
\* cursor and the unavailable set it leaves
NextKey(ks, idx, failed) ==
    IF ks = <<>>
    THEN [is_none |-> TRUE, key |-> NoArg, index |-> idx, failed |-> failed, reset |-> FALSE]
    ELSE LET scan == ScanKeys(ks, idx, failed, 0)
         IN IF scan.found
            THEN [is_none |-> FALSE, key |-> scan.key, index |-> scan.index,
                  failed |-> failed, reset |-> FALSE]
            ELSE IF Cardinality(failed) = Len(ks)
                 THEN [is_none |-> FALSE, key |-> ks[1], index |-> scan.index,
                       failed |-> {}, reset |-> TRUE]
                 ELSE [is_none |-> FALSE, key |-> ks[1], index |-> scan.index,
                       failed |-> failed, reset |-> FALSE]

\* the classification of mark_failed, line 70
IsRateLimit(reason) ==
    \/ Contains(reason, <<"4","2","9">>)
    \/ Contains(reason, MSG_RESOURCE)
    \/ Contains(Lower(reason), <<"q","u","o","t","a">>)

\* mark_failed without the test of line 70: every error marks the key
MarkFailedSetAlways(failed, key, reason) == failed \cup {key}

\* mark_failed on (failed_keys, key_stats)
MarkFailedSet(failed, key, reason) ==
    IF IsRateLimit(reason) THEN failed \cup {key} ELSE failed

\* lines 72-73 adding the failure to the counter of a key that is not marked yet only
MarkFailedStatsOncePerKey(stats, key, reason) ==
    IF IsRateLimit(reason) /\ key \in DOMAIN stats /\ stats[key].failures = 0
    THEN [stats EXCEPT ![key].failures = @ + 1]
    ELSE stats

MarkFailedStats(stats, key, reason) ==
    IF IsRateLimit(reason) /\ key \in DOMAIN stats
    THEN [stats EXCEPT ![key].failures = @ + 1]
    ELSE stats

\* mark_success on key_stats
MarkSuccessStats(stats, key) ==
    IF key \in DOMAIN stats
    THEN [stats EXCEPT ![key].uses = @ + 1]
    ELSE stats

RECURSIVE SumStats(_, _)
SumStats(stats, dom) ==
    IF dom = {} THEN 0
    ELSE LET k == CHOOSE x \in dom : TRUE
         IN stats[k].uses + stats[k].failures + SumStats(stats, dom \ {k})

TotalCount == SumStats(key_stats, DOMAIN key_stats)

EmptyObject == <<>>

\* (client, use_key_manager) as main passes them: a client only in
\* single-credential mode, and none when no credential is configured
Modes ==
    { [use_key_manager |-> TRUE, client |-> FALSE],
      [use_key_manager |-> FALSE, client |-> TRUE],
      [use_key_manager |-> FALSE, client |-> FALSE] }

\* document texts: missing (None), or `pad` whitespace characters around a
\* core of `core` characters that starts and ends with a visible one
NoText == [missing |-> TRUE, pad |-> 0, core |-> 0]

PdfTexts ==
    { NoText,
      [missing |-> FALSE, pad |-> 0, core |-> 0],
      [missing |-> FALSE, pad |-> 0, core |-> 49],
      [missing |-> FALSE, pad |-> 2, core |-> 49],
      [missing |-> FALSE, pad |-> 0, core |-> 50] }

\* len(pdf_text) and len(pdf_text.strip())
TextLen(t) == t.pad + t.core

StrippedLen(t) == t.core

\* line 335 with the threshold off by one
TooShortOffByOne(t) == t.missing \/ TextLen(t) = 0 \/ StrippedLen(t) < MinTextLen - 1

\* line 335
TooShort(t) == t.missing \/ TextLen(t) = 0 \/ StrippedLen(t) < MinTextLen

\* the local variables of extract_json_with_gemini, and what is recorded of the call
IdleCall ==
    [pc |-> "idle", use_key_manager |-> FALSE, client |-> FALSE, ic_name |-> <<>>,
     max_key_attempts |-> 0, key_attempt |-> 0, attempt |-> 0, api_key |-> NoArg,
     outcome |-> "", result |-> EmptyObject,
     pdf_text |-> NoText, calls |-> 0, nexts |-> 0, reset |-> FALSE,
     used |-> {}, revisit |-> FALSE, premarked |-> FALSE,
     first_rate |-> FALSE, parsed_at |-> 0, parsed |-> EmptyObject,
     all_malformed |-> TRUE]

-----------------------------------------------------------------------------
(* Operations of the key pool, called directly *)

\* add_keys; `last` keeps the input, and whether the pool it replaced had been
\* used (a moved cursor, a marked key and a raised counter)
AddKeys(input) ==
    /\ keys' = CleanKeys(input)
    /\ current_index' = 0
    /\ failed_keys' = {}
    /\ key_stats' = FreshStats(keys')
    /\ last' = Did("add_keys", input, NoArg, FALSE,
                   current_index # 0 /\ failed_keys # {} /\ TotalCount > 0)
    /\ run' = <<>>
    /\ run_start' = 0
    /\ call' = IdleCall
    /\ UNCHANGED norm

GetNextKey ==
    LET r == NextKey(keys, current_index, failed_keys)
    IN /\ current_index' = r.index
       /\ failed_keys' = r.failed
       /\ last' = Did("get_next_key", r.key, NoArg, r.is_none, r.reset)
       /\ IF failed_keys = {} /\ ~r.is_none
          THEN IF run # <<>> /\ Len(run) < Len(keys)
               THEN run' = Append(run, r.key) /\ run_start' = run_start
               ELSE run' = <<r.key>> /\ run_start' = current_index
          ELSE run' = <<>> /\ run_start' = 0
       /\ UNCHANGED <<keys, key_stats, call, norm>>

MarkFailed(key, reason) ==
    /\ TotalCount < MaxCount
    /\ failed_keys' = MarkFailedSet(failed_keys, key, reason)
    /\ key_stats' = MarkFailedStats(key_stats, key, reason)
    /\ last' = Did("mark_failed", key, reason, FALSE, IsRateLimit(reason))
    /\ run' = <<>>
    /\ run_start' = 0
    /\ UNCHANGED <<keys, current_index, call, norm>>

MarkSuccess(key) ==
    /\ TotalCount < MaxCount
    /\ key_stats' = MarkSuccessStats(key_stats, key)
    /\ last' = Did("mark_success", key, NoArg, FALSE, FALSE)
    /\ run' = <<>>
    /\ run_start' = 0
    /\ UNCHANGED <<keys, current_index, failed_keys, call, norm>>

NextPool ==
    \/ \E input \in KeyLists : AddKeys(input)
    \/ GetNextKey
    \/ \E k \in Range(keys), reason \in ErrorTexts : MarkFailed(k, reason)
    \/ \E k \in Range(keys) : MarkSuccess(k)

-----------------------------------------------------------------------------
(* Response normalizer: validate_and_clean_data *)

\* JSON values: a string (its characters), a number or null
StrVal(s) == [t |-> "str", s |-> s]

NumVal == [t |-> "num", s |-> <<>>]

NullVal == [t |-> "null", s |-> <<>>]

required_fields ==
    <<"BROKER_NAME", "CC", "CGST", "CHASIS_NUMBER", "CITY_NAME", "COVER",
      "CUSTOMER_EMAIL", "CUSTOMER_NAME", "CV_TYPE", "ENGINE_NUMBER",
      "FINANCIER_NAME", "FUEL_TYPE", "GST", "GVW", "IDV_SUM_INSURED",
      "IGST", "INSURANCE_COMPANY_NAME", "COMPLETE_LOCATION_ADDRESS",
      "MOB_NO", "NCB", "NET_PREMIUM", "NOMINEE_NAME", "NOMINEE_RELATIONSHIP",
      "OD_EXPIRE_DATE", "OD_PREMIUM", "PINCODE", "POLICY_ISSUE_DATE",
      "POLICY_NO", "PRODUCT_CODE", "REGISTRATION_DATE", "REGISTRATION_NUMBER",
      "RISK_END_DATE", "RISK_START_DATE", "SGST", "STATE_NAME",
      "TOTAL_PREMIUM", "TP_ONLY_PREMIUM", "VEHICLE_MAKE", "VEHICLE_MODEL",
      "VEHICLE_SUB_TYPE", "VEHICLE_VARIANT", "YEAR_OF_MANUFACTURE">>

\* the index of the first whitespace character of s, or Len(s) + 1
RECURSIVE WordEnd(_, _)
WordEnd(s, i) ==
    IF i > Len(s) \/ s[i] \in Whitespace THEN i ELSE WordEnd(s, i + 1)

\* str.split() without arguments
RECURSIVE SplitWords(_)
SplitWords(s) ==
    LET t == LStrip(s)
    IN IF t = <<>> THEN <<>>
       ELSE LET e == WordEnd(t, 1)
            IN <<SubSeq(t, 1, e - 1)>> \o SplitWords(SubSeq(t, e, Len(t)))

\* " ".join(words)
RECURSIVE JoinWords(_)
JoinWords(words) ==
    IF words = <<>> THEN <<>>
    ELSE IF Len(words) = 1 THEN words[1]
    ELSE words[1] \o <<" ">> \o JoinWords(Tail(words))

Placeholders ==
    { <<"n","o","n","e">>, <<"n","u","l","l">>, <<"n","/","a">>, <<"n","a">> }

STR_reliance == <<"r","e","l","i","a","n","c","e">>

STR_shriram == <<"s","h","r","i","r","a","m">>

RELIANCE_NAME ==
    <<"R","e","l","i","a","n","c","e"," ","G","e","n","e","r","a","l"," ",
      "I","n","s","u","r","a","n","c","e">>

SHRIRAM_NAME ==
    <<"S","H","R","I","R","A","M"," ","G","E","N","E","R","A","L"," ",
      "I","N","S","U","R","A","N","C","E"," ","C","O","M","P","A","N","Y"," ",
      "L","I","M","I","T","E","D">>

\* lines 447-450 building a fresh record of the schema's fields only
FillMissingSchemaOnly(data) ==
    [f \in Range(required_fields) |->
        IF f \in DOMAIN data THEN data[f] ELSE StrVal(<<>>)]

\* lines 447-450: initialize missing fields
FillMissing(data) ==
    [f \in (DOMAIN data) \cup Range(required_fields) |->
        IF f \in DOMAIN data THEN data[f] ELSE StrVal(<<>>)]

\* lines 454-457, one value: the placeholder test reads the value as received
CleanValue(v) ==
    IF v.t = "str"
    THEN IF Lower(v.s) \in Placeholders
         THEN StrVal(<<>>)
         ELSE StrVal(JoinWords(SplitWords(v.s)))
    ELSE v

\* lines 452-457: clean string values
CleanStrings(data) == [f \in DOMAIN data |-> CleanValue(data[f])]

\* lines 461 and 464: .lower() of a value that is no string raises
InsurerCheckRaises(data, ic_name) ==
    /\ Lower(ic_name) \in {STR_reliance, STR_shriram}
    /\ data["INSURANCE_COMPANY_NAME"].t # "str"

\* lines 459-465: validate insurance company name
EnforceInsurer(data, ic_name) ==
    LET name == Lower(data["INSURANCE_COMPANY_NAME"].s)
    IN IF Lower(ic_name) = STR_reliance
       THEN IF ~Contains(name, STR_reliance)
            THEN [data EXCEPT !["INSURANCE_COMPANY_NAME"] = StrVal(RELIANCE_NAME)]
            ELSE data
       ELSE IF Lower(ic_name) = STR_shriram
       THEN IF ~Contains(name, STR_shriram)
            THEN [data EXCEPT !["INSURANCE_COMPANY_NAME"] = StrVal(SHRIRAM_NAME)]
            ELSE data
       ELSE data

\* validate_and_clean_data: the record returned, or the exception raised
Normalize(data, ic_name) ==
    LET cleaned == CleanStrings(FillMissing(data))
    IN IF InsurerCheckRaises(cleaned, ic_name)
       THEN [raised |-> TRUE, data |-> EmptyObject]
       ELSE [raised |-> FALSE, data |-> EnforceInsurer(cleaned, ic_name)]

\* the dict handed to validate_and_clean_data as the call leaves it: the
\* function writes into it (lines 450, 455, 457, 462, 465), so when line 461
\* or 464 raises it is already filled and cleaned
DictAfter(data, ic_name) ==
    LET n == Normalize(data, ic_name)
    IN IF n.raised THEN CleanStrings(FillMissing(data)) ELSE n.data

\* raw objects: any of three members, two of the schema and one outside it,
\* each holding a padded text, a placeholder (bare or padded), an insurer
\* name, a number or null
RawFields == {"INSURANCE_COMPANY_NAME", "NCB", "EXTRA"}

RawValues ==
    { StrVal(<<" ","J","\t"," ","D","\n">>),
      StrVal(<<"N","/","A">>),
      StrVal(<<" ","n","a"," ">>),
      StrVal(<<"R","E","L","I","A","N","C","E">>),
      StrVal(STR_shriram),
      NumVal,
      NullVal }

RawObjects == UNION { [D -> RawValues] : D \in SUBSET RawFields }

\* no call of validate_and_clean_data has been set up
NoNorm ==
    [pc |-> "none", ic_name |-> <<>>, raw |-> EmptyObject, data |-> EmptyObject,
     raised |-> FALSE]

-----------------------------------------------------------------------------
(* Backend responses and the JSON location of lines 370-380 *)

\* A response text is a sequence of tokens: "{" and "}", "x" for any other
\* visible character, whitespace, and a token naming the members written
\* between a pair of braces.
Members ==
    [ m_policy |-> [POLICY_NO |-> StrVal(<<" ","P"," "," ","1">>),
                    INSURANCE_COMPANY_NAME |-> StrVal(<<"R","E","L","I","A","N","C","E">>)],
      m_null   |-> [INSURANCE_COMPANY_NAME |-> NullVal, NCB |-> StrVal(<<"N","/","A">>)],
      m_number |-> [INSURANCE_COMPANY_NAME |-> StrVal(<<"S","h","r","i","r","a","m">>),
                    CC |-> NumVal] ]

ResponseTexts ==
    { <<>>,
      <<"x">>,
      <<"{", "x">>,
      <<"}", "{">>,
      <<"{", "x", "}">>,
      <<"{", "}">>,
      <<"x", "{", "m_policy", "}", "x", "\n">>,
      <<"{", "m_null", "}">>,
      <<" ", "{", "m_number", "}">>,
      <<"{", "m_policy", "}", "{", "}">> }

\* str.find(tok): the first index (from 0), or -1
Find(text, tok) ==
    IF \E i \in 1..Len(text) : text[i] = tok
    THEN (CHOOSE i \in 1..Len(text) :
            text[i] = tok /\ \A j \in 1..(i - 1) : text[j] # tok) - 1
    ELSE -1

\* str.rfind(tok): the last index (from 0), or -1
RFind(text, tok) ==
    IF \E i \in 1..Len(text) : text[i] = tok
    THEN (CHOOSE i \in 1..Len(text) :
            text[i] = tok /\ \A j \in (i + 1)..Len(text) : text[j] # tok) - 1
    ELSE -1

\* text[start:end] for 0 <= start
Slice(text, start, end) == SubSeq(text, start + 1, end)

NotSpace(tok) == tok \notin Whitespace

\* json.loads: an object, or JSONDecodeError
JsonLoads(json_text) ==
    LET toks == SelectSeq(json_text, NotSpace)
    IN IF toks = <<"{", "}">>
       THEN [ok |-> TRUE, data |-> EmptyObject]
       ELSE IF Len(toks) = 3 /\ toks[1] = "{" /\ toks[3] = "}"
               /\ toks[2] \in DOMAIN Members
       THEN [ok |-> TRUE, data |-> Members[toks[2]]]
       ELSE [ok |-> FALSE, data |-> EmptyObject]

\* lines 370-380: "json" with the object, "no_json" (ValueError, line 377) or
\* "bad_json" (JSONDecodeError, line 380)
ParseResponse(response_text) ==
    LET text == Strip(response_text)
        start == Find(text, "{")
        end == RFind(text, "}") + 1
    IN IF start = -1 \/ end = 0
       THEN [kind |-> "no_json", data |-> EmptyObject]
       ELSE LET j == JsonLoads(Slice(text, start, end))
            IN IF j.ok
               THEN [kind |-> "json", data |-> j.data]
               ELSE [kind |-> "bad_json", data |-> EmptyObject]

MSG_no_json == <<"N","o"," ","J","S","O","N"," ","o","b","j","e","c","t"," ","f","o","u","n","d"," ","i","n"," ","r","e","s","p","o","n","s","e">>

MSG_attribute == <<"'","N","o","n","e","T","y","p","e","'"," ","o","b","j","e","c","t"," ","h","a","s"," ","n","o"," ","a","t","t","r","i","b","u","t","e"," ","'","l","o","w","e","r","'">>

-----------------------------------------------------------------------------
(* extract_json_with_gemini *)

SINGLE_KEY == <<"single_key">>

\* the document-type labels: the two main offers, and one that is neither
DocTypes == { STR_reliance, STR_shriram, <<"o","t","h","e","r">> }

\* the pool as the orchestrator reads and writes it
Pool(idx, failed, stats) == [index |-> idx, failed |-> failed, stats |-> stats]

Out(c, p) == [call |-> c, pool |-> p]

\* return {} (or the record) with the message shown before it
Return(c, outcome, result) ==
    [c EXCEPT !.pc = "done", !.outcome = outcome, !.result = result]

\* the top of the credential loop without lines 349-351: a missing key is
\* handed to the backend client
EnterRoundNoNoneCheck(c, ka, p) ==
    IF ka >= c.max_key_attempts
    THEN Out(Return([c EXCEPT !.key_attempt = ka],
                    IF c.use_key_manager THEN "exhausted" ELSE "failed",
                    EmptyObject), p)
    ELSE IF c.use_key_manager
    THEN LET r == NextKey(keys, p.index, p.failed)
         IN Out([c EXCEPT !.pc = "calling", !.key_attempt = ka, !.nexts = @ + 1,
                          !.reset = @ \/ r.reset, !.api_key = r.key, !.attempt = 0,
                          !.used = @ \cup {r.key},
                          !.revisit = @ \/ r.key \in c.used],
                [p EXCEPT !.index = r.index, !.failed = r.failed])
    ELSE IF c.client
    THEN Out([c EXCEPT !.pc = "calling", !.key_attempt = ka,
                       !.api_key = SINGLE_KEY, !.attempt = 0],
             p)
    ELSE Out(Return([c EXCEPT !.key_attempt = ka], "not_configured", EmptyObject), p)

\* lines 345-359: the top of the credential loop, for round ka
EnterRound(c, ka, p) ==
    IF ka >= c.max_key_attempts
    THEN \* lines 424-428
         Out(Return([c EXCEPT !.key_attempt = ka],
                    IF c.use_key_manager THEN "exhausted" ELSE "failed",
                    EmptyObject), p)
    ELSE IF c.use_key_manager
    THEN LET r == NextKey(keys, p.index, p.failed)
             p2 == [p EXCEPT !.index = r.index, !.failed = r.failed]
             c2 == [c EXCEPT !.key_attempt = ka, !.nexts = @ + 1,
                             !.reset = @ \/ r.reset]
         IN IF r.is_none \/ r.key = <<>>
            THEN Out(Return(c2, "no_credentials", EmptyObject), p2)
            ELSE Out([c2 EXCEPT !.pc = "calling", !.api_key = r.key, !.attempt = 0,
                                !.used = @ \cup {r.key},
                                !.revisit = @ \/ r.key \in c.used],
                     p2)
    ELSE IF c.client
    THEN Out([c EXCEPT !.pc = "calling", !.key_attempt = ka,
                       !.api_key = SINGLE_KEY, !.attempt = 0],
             p)
    ELSE Out(Return([c EXCEPT !.key_attempt = ka], "not_configured", EmptyObject), p)

\* the retry test written attempt < MAX_RETRIES: one attempt too many
RetryOrGiveUpOneMore(c, p, failure) ==
    IF c.attempt < MAX_RETRIES
    THEN Out([c EXCEPT !.attempt = @ + 1], p)
    ELSE IF c.use_key_manager /\ c.key_attempt < c.max_key_attempts - 1
    THEN EnterRound(c, c.key_attempt + 1, p)
    ELSE Out(Return(c, failure, EmptyObject), p)

\* lines 392-402 and 413-422: retry, go to the next key, or give up
RetryOrGiveUp(c, p, failure) ==
    IF c.attempt < MAX_RETRIES - 1
    THEN Out([c EXCEPT !.attempt = @ + 1], p)
    ELSE IF c.use_key_manager /\ c.key_attempt < c.max_key_attempts - 1
    THEN EnterRound(c, c.key_attempt + 1, p)
    ELSE Out(Return(c, failure, EmptyObject), p)

\* lines 391-402: except json.JSONDecodeError
OnDecodeError(c, p) == RetryOrGiveUp(c, p, "could_not_parse")

\* lines 404-422: except Exception
OnException(c, p, error_str) ==
    IF c.use_key_manager /\ c.api_key # <<>> /\ IsRateLimit(error_str)
    THEN EnterRound(c, c.key_attempt + 1,
                    [p EXCEPT !.failed = MarkFailedSet(@, c.api_key, error_str),
                              !.stats = MarkFailedStats(@, c.api_key, error_str)])
    ELSE RetryOrGiveUp(c, p, "error")

\* lines 382-389: normalize, mark success, return
OnParsed(c, p, data) ==
    LET n == Normalize(data, c.ic_name)
    IN IF n.raised
       THEN OnException(c, p, MSG_attribute)
       ELSE Out(Return(c, "record", n.data),
                IF c.use_key_manager /\ c.api_key # <<>>
                THEN [p EXCEPT !.stats = MarkSuccessStats(@, c.api_key)]
                ELSE p)

\* lines 370-389: the backend returned response_text
OnResponse(c, p, response_text) ==
    LET parsed == ParseResponse(response_text)
    IN IF parsed.kind = "json" THEN OnParsed(c, p, parsed.data)
       ELSE IF parsed.kind = "bad_json" THEN OnDecodeError(c, p)
       ELSE OnException(c, p, MSG_no_json)

\* what is recorded of a backend call when it is made
Called(c, malformed, rate, parsed, data) ==
    [c EXCEPT !.calls = @ + 1,
              !.first_rate = IF c.calls = 0 THEN rate ELSE @,
              !.parsed_at = IF parsed /\ @ = 0 THEN c.calls + 1 ELSE @,
              !.parsed = IF parsed /\ c.parsed_at = 0 THEN data ELSE @,
              !.all_malformed = @ /\ malformed]

Commit(out) ==
    \E o \in {out} :
        /\ call' = o.call
        /\ current_index' = o.pool.index
        /\ failed_keys' = o.pool.failed
        /\ key_stats' = o.pool.stats
        /\ UNCHANGED keys

ThePool == Pool(current_index, failed_keys, key_stats)

Init ==
    /\ keys = <<>>
    /\ current_index = 0
    /\ failed_keys = {}
    /\ key_stats = <<>>
    /\ last = Did("init", NoArg, NoArg, FALSE, FALSE)
    /\ run = <<>>
    /\ run_start = 0
    /\ call = IdleCall
    /\ norm = NoNorm

\* the single credential field of main: a string, empty when nothing is entered
SingleKeys == RawKeys \cup {<<>>}

\* line 572: main starts the extraction in multi-key mode when the list field
\* holds more than one non-blank line
UseKeyManager(api_keys_text) == Len(CleanKeys(api_keys_text)) > 1

\* lines 496-507, the configuration main runs before an extraction: add_keys
\* with the non-blank lines of the list field when there are any, and then
\* add_keys with the single credential field when it is not empty. Each
\* add_keys replaces the whole pool, so the pool is the one of the last call
\* made, and it is left as it was when neither call is made. `last` keeps the
\* two fields. Configuring again after an extract call reaches no state that
\* configuring before the first call does not reach.
Configure(api_keys_text, api_key_input) ==
    LET keys_list == CleanKeys(api_keys_text)
        added == IF api_key_input # <<>> THEN <<api_key_input>> ELSE keys_list
    IN  /\ call.pc = "idle"
        /\ IF keys_list # <<>> \/ api_key_input # <<>>
           THEN /\ keys' = CleanKeys(added)
                /\ current_index' = 0
                /\ failed_keys' = {}
                /\ key_stats' = FreshStats(keys')
           ELSE UNCHANGED poolVars
        /\ last' = Did("configure", api_keys_text, api_key_input, FALSE, FALSE)
        /\ run' = <<>>
        /\ run_start' = 0
        /\ call' = IdleCall
        /\ UNCHANGED norm

\* lines 332-361: the call, up to its first backend call or its return
Extract(pdf_text, ic_name, client, use_key_manager) ==
    /\ call.pc # "calling"
    /\ TotalCount < MaxCount
    /\ LET c0 == [IdleCall EXCEPT
                    !.use_key_manager = use_key_manager, !.client = client,
                    !.ic_name = ic_name, !.pdf_text = pdf_text,
                    !.premarked = use_key_manager /\ failed_keys # {},
                    !.max_key_attempts =
                        IF use_key_manager /\ keys # <<>> THEN Len(keys) ELSE 1]
       IN IF TooShort(pdf_text)
          THEN Commit(Out(Return(c0, "insufficient_input", EmptyObject), ThePool))
          ELSE Commit(EnterRound(c0, 0, ThePool))
    /\ last' = Did("extract", NoArg, NoArg, FALSE, FALSE)
    /\ UNCHANGED <<run, run_start, norm>>

\* generate_content returns a text
BackendReturns(response_text) ==
    /\ call.pc = "calling"
    /\ LET parsed == ParseResponse(response_text)
           c == Called(call, parsed.kind # "json", FALSE,
                       parsed.kind = "json", parsed.data)
       IN Commit(OnResponse(c, ThePool, response_text))
    /\ last' = Did("returns", call.api_key, NoArg, FALSE, FALSE)
    /\ UNCHANGED <<run, run_start, norm>>

\* generate_content raises an error
BackendRaises(error_str) ==
    /\ call.pc = "calling"
    /\ LET c == Called(call, FALSE, IsRateLimit(error_str), FALSE, EmptyObject)
       IN Commit(OnException(c, ThePool, error_str))
    /\ last' = Did("raises", call.api_key, NoArg, FALSE, IsRateLimit(error_str))
    /\ UNCHANGED <<run, run_start, norm>>

Next ==
    \/ \E api_keys_text \in KeyLists, api_key_input \in SingleKeys :
            Configure(api_keys_text, api_key_input)
    \/ \E pdf_text \in PdfTexts, ic_name \in DocTypes, mode \in Modes :
            Extract(pdf_text, ic_name, mode.client, mode.use_key_manager)
    \/ \E response_text \in ResponseTexts : BackendReturns(response_text)
    \/ \E error_str \in ErrorTexts : BackendRaises(error_str)

Spec == Init /\ [][Next]_vars

SpecPool == Init /\ [][NextPool]_vars

-----------------------------------------------------------------------------
(* validate_and_clean_data, called directly *)

\* a raw object and a document type, before the call
InitNorm ==
    /\ keys = <<>>
    /\ current_index = 0
    /\ failed_keys = {}
    /\ key_stats = <<>>
    /\ last = Did("init", NoArg, NoArg, FALSE, FALSE)
    /\ run = <<>>
    /\ run_start = 0
    /\ call = IdleCall
    /\ \E raw \in RawObjects, ic_name \in DocTypes :
          norm = [pc |-> "raw", ic_name |-> ic_name, raw |-> raw, data |-> raw,
                  raised |-> FALSE]

\* validate_and_clean_data(data, ic_name) on the dict at hand: the first call
\* on the raw object, a later one on the dict the call before left
ValidateAndClean ==
    /\ norm.pc \in {"raw", "called"}
    /\ norm' = [norm EXCEPT !.pc = "called",
                            !.data = DictAfter(norm.data, norm.ic_name),
                            !.raised = Normalize(norm.data, norm.ic_name).raised]
    /\ last' = Did("validate_and_clean_data", NoArg, NoArg, FALSE, FALSE)
    /\ UNCHANGED <<keys, current_index, failed_keys, key_stats, run, run_start, call>>

NextNorm == ValidateAndClean

SpecNorm == InitNorm /\ [][NextNorm]_vars

-----------------------------------------------------------------------------
(* Claims about extract_json_with_gemini, under Spec *)

Outcomes ==
    {"record", "insufficient_input", "no_credentials", "not_configured",
     "could_not_parse", "error", "exhausted"}

\* the backend calls the call may still make are bounded by this
CallBudget(c) == MAX_RETRIES * (IF c.use_key_manager THEN Len(keys) ELSE 1)

\* the attempts left to the call: those of this round and of the rounds after it
Remaining(c) ==
    IF c.pc = "calling"
    THEN MAX_RETRIES * (c.max_key_attempts - c.key_attempt) - c.attempt
    ELSE 0

\* C1: in multi-key mode with at least two distinct credentials, when the first
\* backend call fails with a rate-limit-classified error and the second returns
\* a text that parses as a JSON object, extract has returned the normalized
\* record after exactly two rounds and exactly two backend calls.
C1_RateLimitThenRecord ==
    ( /\ call.use_key_manager
      /\ Cardinality(Range(keys)) >= 2
      /\ call.first_rate
      /\ call.parsed_at = 2 )
    => /\ call.pc = "done"
       /\ call.outcome = "record"
       /\ call.result = Normalize(call.parsed, call.ic_name).data
       /\ call.nexts = 2
       /\ call.calls = 2

\* the first parsed response of the call passed validate_and_clean_data
NormalizerReturned == ~Normalize(call.parsed, call.ic_name).raised

\* What is left of C1 when the normalizer does not raise on the parsed object:
\* the call then ends with the record after two rounds and two backend calls.
C1_HoldsWhenNormalizerReturns ==
    ( /\ call.use_key_manager
      /\ Cardinality(Range(keys)) >= 2
      /\ call.first_rate
      /\ call.parsed_at = 2
      /\ NormalizerReturned )
    => /\ call.pc = "done"
       /\ call.outcome = "record"
       /\ call.result = Normalize(call.parsed, call.ic_name).data
       /\ call.nexts = 2
       /\ call.calls = 2

\* C2: in multi-key mode with N >= 1 credentials, when every backend call of a
\* finished extract call returned unparseable text, the call failed with the
\* "could not parse" failure after exactly N rounds and 3 * N backend calls.
C2_AllMalformedCouldNotParse ==
    ( /\ call.pc = "done"
      /\ call.use_key_manager
      /\ keys # <<>>
      /\ call.calls > 0
      /\ call.all_malformed )
    => /\ call.outcome = "could_not_parse"
       /\ call.nexts = Len(keys)
       /\ call.calls = MAX_RETRIES * Len(keys)

\* What is left of C2: the rounds and the backend calls are as claimed, and the
\* failure is that of the handler the last response reached (line 400 or 421).
C2_CountsHold ==
    ( /\ call.pc = "done"
      /\ call.use_key_manager
      /\ keys # <<>>
      /\ call.calls > 0
      /\ call.all_malformed )
    => /\ call.outcome \in {"could_not_parse", "error"}
       /\ call.nexts = Len(keys)
       /\ call.calls = MAX_RETRIES * Len(keys)

\* C3: an extract call in multi-key mode on an empty pool (with a document text
\* that passes the length check) returns at once with the "no credentials"
\* failure: no backend call is made and the pool is as it was.
C3_EmptyPoolNoCredentials ==
    [][ ( /\ last'.op = "extract"
          /\ call'.use_key_manager
          /\ ~call'.pdf_text.missing
          /\ StrippedLen(call'.pdf_text) >= MinTextLen
          /\ keys = <<>> )
        => /\ call'.pc = "done"
           /\ call'.outcome = "no_credentials"
           /\ call'.result = EmptyObject
           /\ call'.calls = 0
           /\ UNCHANGED poolVars ]_vars

C3_Witness ==
    /\ last.op = "extract"
    /\ call.pc = "done"
    /\ call.outcome = "no_credentials"
    /\ call.use_key_manager
    /\ keys = <<>>
    /\ call.nexts = 1

\* C4: an extract call whose document text is missing or shorter than 50
\* characters returns at once with the insufficient-input outcome, in every
\* mode: no backend call, no get_next_key call, and the pool is as it was.
C4_ShortTextRejected ==
    [][ ( /\ last'.op = "extract"
          /\ (call'.pdf_text.missing \/ TextLen(call'.pdf_text) < MinTextLen) )
        => /\ call'.pc = "done"
           /\ call'.outcome = "insufficient_input"
           /\ call'.result = EmptyObject
           /\ call'.calls = 0
           /\ call'.nexts = 0
           /\ UNCHANGED poolVars ]_vars

C4_Witness ==
    /\ last.op = "extract"
    /\ call.outcome = "insufficient_input"
    /\ ~call.pdf_text.missing
    /\ TextLen(call.pdf_text) = MinTextLen - 1
    /\ call.use_key_manager
    /\ Len(keys) >= 2
    /\ failed_keys # {}
    /\ current_index # 0

\* C5: the first backend response of an extract call that parses as a JSON
\* object ends the call with the normalized record; at that step the use
\* counter of the credential of the attempt grows by one and nothing else of
\* the pool changes, and no backend call or get_next_key call follows.
C5_FirstParsedResponseEndsCall ==
    /\ [](call.parsed_at # 0 =>
            /\ call.pc = "done"
            /\ call.outcome = "record"
            /\ call.result = Normalize(call.parsed, call.ic_name).data
            /\ call.calls = call.parsed_at)
    /\ [][ (call.parsed_at = 0 /\ call'.parsed_at # 0) =>
            /\ call'.nexts = call.nexts
            /\ failed_keys' = failed_keys
            /\ current_index' = current_index
            /\ call.use_key_manager =>
                 key_stats' = [key_stats EXCEPT ![call.api_key].uses = @ + 1] ]_vars

\* What is left of C5 when the normalizer does not raise on the parsed object.
C5_HoldsWhenNormalizerReturns ==
    /\ []((call.parsed_at # 0 /\ NormalizerReturned) =>
            /\ call.pc = "done"
            /\ call.outcome = "record"
            /\ call.result = Normalize(call.parsed, call.ic_name).data
            /\ call.calls = call.parsed_at)
    /\ [][ ( /\ call.parsed_at = 0
             /\ call'.parsed_at # 0
             /\ ~Normalize(call'.parsed, call'.ic_name).raised ) =>
            /\ call'.nexts = call.nexts
            /\ failed_keys' = failed_keys
            /\ current_index' = current_index
            /\ call.use_key_manager =>
                 key_stats' = [key_stats EXCEPT ![call.api_key].uses = @ + 1] ]_vars

\* C6: every extract call ends with a definite outcome whatever the backend
\* does: while the call waits for the backend it has attempts left and has made
\* fewer backend calls than its budget (3 * N in multi-key mode, 3 otherwise),
\* every backend outcome either ends the call or uses up one attempt, and a
\* finished call has a record exactly when its outcome is "record".
C6_TerminatesWithinBudget ==
    /\ [](/\ call.calls <= CallBudget(call)
          /\ call.pc = "calling" =>
                /\ Remaining(call) > 0
                /\ call.calls + Remaining(call) <= CallBudget(call)
          /\ call.pc = "done" =>
                /\ call.outcome \in Outcomes
                /\ (call.outcome # "record") => call.result = EmptyObject)
    /\ [][ call.pc = "calling" =>
             \/ call'.pc = "done"
             \/ /\ call'.pc = "calling"
                /\ call'.calls = call.calls + 1
                /\ Remaining(call') < Remaining(call) ]_vars

C6_Witness ==
    /\ call.pc = "done"
    /\ call.use_key_manager
    /\ Len(keys) >= 2
    /\ call.calls = MAX_RETRIES * Len(keys)
    /\ call.outcome = "error"

-----------------------------------------------------------------------------
(* Claims about the key pool, under SpecPool *)

\* C7, as stated: from any state of a pool of N (distinct) credentials with
\* none marked unavailable, N consecutive get_next_key calls return each
\* credential exactly once, in insertion order, entry 0 first.
C7_InsertionOrderFromEntry0 ==
    (keys # <<>> /\ Cardinality(Range(keys)) = Len(keys) /\ Len(run) = Len(keys))
    => /\ run = keys
       /\ \A k \in Range(keys) : Cardinality({i \in 1..Len(run) : run[i] = k}) = 1

\* C7, amended: from a pool of N entries with none marked unavailable and the
\* cursor at c, consecutive get_next_key calls return the entries c, c+1, ...,
\* N-1, 0, ..., c-1 in that order, so N calls return every entry once.
C7_RoundRobinFromCursor ==
    (keys # <<>> /\ run # <<>>)
    => /\ Len(run) <= Len(keys)
       /\ \A i \in 1..Len(run) :
            run[i] = keys[((run_start + i - 1) % Len(keys)) + 1]

C7_Witness ==
    /\ Len(keys) >= 2
    /\ Len(run) = Len(keys)
    /\ run_start # 0
    /\ Cardinality(Range(keys)) = Len(keys)

\* C8: a credential K marked unavailable by mark_failed is not returned by
\* get_next_key while another credential of the pool is available, and is
\* returned again only by a call that performs the full reset (or after
\* add_keys has replaced the pool, which clears the mark).
C8_FailedKeyOnlyAfterReset ==
    [][ ( /\ last'.op = "get_next_key"
          /\ ~last'.is_none
          /\ last'.key \in failed_keys )
        => /\ Range(keys) \subseteq failed_keys
           /\ last'.flag
           /\ failed_keys' = {} ]_vars

\* What is left of C8 on a pool whose entries are pairwise different.
C8_HoldsOnDistinctEntries ==
    [][ ( /\ last'.op = "get_next_key"
          /\ ~last'.is_none
          /\ last'.key \in failed_keys
          /\ Cardinality(Range(keys)) = Len(keys) )
        => /\ Range(keys) \subseteq failed_keys
           /\ last'.flag
           /\ failed_keys' = {} ]_vars

\* C9: on a non-empty pool get_next_key always returns a credential of the
\* pool, and None only on an empty pool; when every entry is marked unavailable
\* it empties the unavailable set and returns entry 0, so that afterwards no
\* credential of the pool is marked unavailable.
C9_NextAlwaysReturnsAndResets ==
    [][ last'.op = "get_next_key" =>
          /\ (keys = <<>>) <=> last'.is_none
          /\ keys # <<>> => last'.key \in Range(keys)
          /\ (keys # <<>> /\ Range(keys) \subseteq failed_keys) =>
                /\ last'.key = keys[1]
                /\ failed_keys' = {} ]_vars

\* What is left of C9 on a pool whose entries are pairwise different.
C9_HoldsOnDistinctEntries ==
    [][ (last'.op = "get_next_key" /\ Cardinality(Range(keys)) = Len(keys)) =>
          /\ (keys = <<>>) <=> last'.is_none
          /\ keys # <<>> => last'.key \in Range(keys)
          /\ (keys # <<>> /\ Range(keys) \subseteq failed_keys) =>
                /\ last'.key = keys[1]
                /\ failed_keys' = {} ]_vars

\* C10: mark_failed with an error text that is not rate-limit-classified (such
\* as "network timeout") returns false and changes nothing of the pool: the
\* unavailable set, the counters and the cursor are as they were.
C10_TransientErrorChangesNothing ==
    [][ last'.op = "mark_failed" =>
          /\ last'.reason = MSG_timeout => ~last'.flag
          /\ ~last'.flag => UNCHANGED poolVars ]_vars

C10_Witness ==
    /\ last.op = "mark_failed"
    /\ last.reason = MSG_timeout
    /\ ~last.flag
    /\ last.key \notin failed_keys
    /\ failed_keys # {}

\* C11: mark_failed classifies by a case-insensitive match on every marker: an
\* error text holding "429", the resource-exhaustion marker or the word quota
\* in any letter case makes it return true, mark the key and add one failure.
C11_ClassifiesAnyLetterCase ==
    [][ ( /\ last'.op = "mark_failed"
          /\ LET text == Lower(last'.reason)
             IN \/ Contains(text, <<"4","2","9">>)
                \/ Contains(text, Lower(MSG_RESOURCE))
                \/ Contains(text, <<"q","u","o","t","a">>) )
        => /\ last'.flag
           /\ failed_keys' = failed_keys \cup {last'.key}
           /\ key_stats' = [key_stats EXCEPT ![last'.key].failures = @ + 1] ]_vars

\* What is left of C11 for the markers as line 70 spells them: "429", the
\* marker RESOURCE_EXHAUSTED in capitals, and quota in any letter case.
C11_HoldsForMarkersAsSpelled ==
    [][ ( /\ last'.op = "mark_failed"
          /\ \/ Contains(last'.reason, <<"4","2","9">>)
             \/ Contains(last'.reason, MSG_RESOURCE)
             \/ Contains(Lower(last'.reason), <<"q","u","o","t","a">>) )
        => /\ last'.flag
           /\ failed_keys' = failed_keys \cup {last'.key}
           /\ key_stats' = [key_stats EXCEPT ![last'.key].failures = @ + 1] ]_vars

\* C12: add_keys from any pool state replaces the pool wholesale: the keys are
\* exactly the non-blank entries of the input, trimmed, in input order (entry
\* j of the pool is the j-th non-blank entry of the input), the cursor is 0,
\* no key is marked, and the counters are those of the new keys, all 0.
C12_AddReplacesPool ==
    [][ last'.op = "add_keys" =>
          LET NonBlank(x) == \E i \in 1..Len(x) : x[i] \notin Whitespace
              kept == SelectSeq(last'.key, NonBlank)
          IN /\ keys' = [i \in 1..Len(kept) |-> Strip(kept[i])]
             /\ current_index' = 0
             /\ failed_keys' = {}
             /\ key_stats' = [k \in Range(keys') |-> [uses |-> 0, failures |-> 0]] ]_vars

C12_Witness ==
    /\ last.op = "add_keys"
    /\ last.flag
    /\ Len(last.key) = 2
    /\ Len(keys) = 1
    /\ keys[1] # last.key[2]
    /\ keys[1] = Strip(last.key[2])

-----------------------------------------------------------------------------
(* Claims about validate_and_clean_data, under SpecNorm *)

\* C13: whenever validate_and_clean_data returns, the result holds every field
\* of the schema and every field of the raw object, and nothing else; a schema
\* field the raw object lacks is the empty string (the insurer name is the
\* canonical name instead when the document type enforces one); so the empty
\* object with type reliance gives the empty string in every schema field but
\* INSURANCE_COMPANY_NAME, which is the canonical Reliance name.
C13_SchemaFieldsPresent ==
    (norm.pc = "called" /\ ~norm.raised) =>
        /\ DOMAIN norm.data = Range(required_fields) \cup DOMAIN norm.raw
        /\ \A f \in Range(required_fields) \ DOMAIN norm.raw :
              norm.data[f] =
                 IF f = "INSURANCE_COMPANY_NAME" /\ Lower(norm.ic_name) = STR_reliance
                 THEN StrVal(RELIANCE_NAME)
                 ELSE IF f = "INSURANCE_COMPANY_NAME" /\ Lower(norm.ic_name) = STR_shriram
                 THEN StrVal(SHRIRAM_NAME)
                 ELSE StrVal(<<>>)
        /\ (DOMAIN norm.raw = {} /\ norm.ic_name = STR_reliance) =>
              /\ norm.data["INSURANCE_COMPANY_NAME"] = StrVal(RELIANCE_NAME)
              /\ \A f \in Range(required_fields) \ {"INSURANCE_COMPANY_NAME"} :
                    norm.data[f] = StrVal(<<>>)

C13_Witness ==
    /\ norm.pc = "called"
    /\ ~norm.raised
    /\ DOMAIN norm.raw = {"EXTRA"}
    /\ norm.ic_name = STR_reliance
    /\ "EXTRA" \in DOMAIN norm.data
    /\ norm.data["POLICY_NO"] = StrVal(<<>>)
    /\ norm.data["INSURANCE_COMPANY_NAME"] = StrVal(RELIANCE_NAME)
    /\ Cardinality(DOMAIN norm.data) = Len(required_fields) + 1

\* the empty object with document type reliance, normalized
C13_EmptyObjectReached ==
    /\ norm.pc = "called"
    /\ DOMAIN norm.raw = {}
    /\ norm.ic_name = STR_reliance
    /\ ~norm.raised

\* C14: after validate_and_clean_data returns, every string value has its
\* whitespace runs collapsed to single spaces and its ends trimmed, and no
\* string value is one of the placeholders none, null, n/a, na in any letter
\* case, a placeholder that the raw object held between blanks included.
C14_NoPlaceholderLeft ==
    (norm.pc = "called" /\ ~norm.raised) =>
        \A f \in DOMAIN norm.data :
            norm.data[f].t = "str" =>
                LET s == norm.data[f].s
                IN /\ \A i \in 1..Len(s) : s[i] \notin {"\t", "\n"}
                   /\ s # <<>> => (s[1] # " " /\ s[Len(s)] # " ")
                   /\ \A i \in 1..(Len(s) - 1) : ~(s[i] = " " /\ s[i + 1] = " ")
                   /\ Lower(s) \notin Placeholders

\* What is left of C14: the whitespace of every string value is collapsed and
\* trimmed, and a placeholder is left only where the raw value was a
\* placeholder with whitespace around it.
C14_HoldsButForPaddedPlaceholders ==
    (norm.pc = "called" /\ ~norm.raised) =>
        \A f \in DOMAIN norm.data :
            norm.data[f].t = "str" =>
                LET s == norm.data[f].s
                IN /\ \A i \in 1..Len(s) : s[i] \notin {"\t", "\n"}
                   /\ s # <<>> => (s[1] # " " /\ s[Len(s)] # " ")
                   /\ \A i \in 1..(Len(s) - 1) : ~(s[i] = " " /\ s[i + 1] = " ")
                   /\ Lower(s) \in Placeholders =>
                        /\ f \in DOMAIN norm.raw
                        /\ norm.raw[f].t = "str"
                        /\ norm.raw[f].s # s
                        /\ Strip(norm.raw[f].s) = s

\* C15: validate_and_clean_data never raises on values that are no strings:
\* for every raw object and document type it returns, and every number or null
\* of the raw object, INSURANCE_COMPANY_NAME included, is in the result as it
\* was.
C15_NonStringsPassThrough ==
    norm.pc = "called" =>
        /\ ~norm.raised
        /\ \A f \in DOMAIN norm.raw :
              norm.raw[f].t # "str" => norm.data[f] = norm.raw[f]

\* What is left of C15: the call returns and passes numbers and nulls through
\* unless the document type is reliance or shriram and INSURANCE_COMPANY_NAME
\* itself is a number or null.
C15_HoldsButForInsurerName ==
    ( /\ norm.pc = "called"
      /\ \/ Lower(norm.ic_name) \notin {STR_reliance, STR_shriram}
         \/ "INSURANCE_COMPANY_NAME" \notin DOMAIN norm.raw
         \/ norm.raw["INSURANCE_COMPANY_NAME"].t = "str" )
    => /\ ~norm.raised
       /\ \A f \in DOMAIN norm.raw :
             norm.raw[f].t # "str" => norm.data[f] = norm.raw[f]

-----------------------------------------------------------------------------
(* Further claims about extract_json_with_gemini, under Spec *)

\* C16: within one extract call in multi-key mode on a pool of pairwise
\* different credentials, no credential is handed to two rounds of the call
\* unless get_next_key performed its full reset during the call, whatever the
\* cursor and the marks an earlier call left.
C16_NoRevisitWithoutReset ==
    ( /\ call.use_key_manager
      /\ Cardinality(Range(keys)) = Len(keys)
      /\ call.revisit )
    => call.reset

\* What is left of C16: a call that starts with no credential marked
\* unavailable never hands a credential to two of its rounds.
C16_HoldsFromUnmarkedPool ==
    ( /\ call.use_key_manager
      /\ Cardinality(Range(keys)) = Len(keys)
      /\ ~call.premarked )
    => ~call.revisit

\* C17: in every mode, a backend call that fails with a rate-limit-classified
\* error is the last one of its round: the call ends or goes to the next
\* round, and in single-credential mode it ends after that one backend call.
C17_RateLimitEndsRound ==
    [][ (last'.op = "raises" /\ last'.flag) =>
          \/ call'.pc = "done"
          \/ /\ call.use_key_manager
             /\ call'.key_attempt = call.key_attempt + 1
             /\ call'.attempt = 0 ]_vars

\* What is left of C17: it holds in multi-key mode, where the error also marks
\* the credential and counts one failure.
C17_HoldsInMultiKeyMode ==
    [][ (last'.op = "raises" /\ last'.flag /\ call.use_key_manager) =>
          /\ \/ call'.pc = "done" /\ call'.outcome \in {"exhausted", "no_credentials"}
             \/ /\ call'.key_attempt = call.key_attempt + 1
                /\ call'.attempt = 0
          /\ call.api_key \in failed_keys' \/ call'.reset
          /\ call'.calls = call.calls + 1 ]_vars

-----------------------------------------------------------------------------
(* Further claims about the key pool, under SpecPool *)

\* C18: on a pool of pairwise different credentials, every get_next_key call
\* that returns a credential leaves the cursor one position past the entry it
\* returned, (index + 1) mod size, also when the full reset returns entry 0.
C18_CursorOnePastReturned ==
    [][ ( /\ last'.op = "get_next_key"
          /\ ~last'.is_none
          /\ Cardinality(Range(keys)) = Len(keys) )
        => \E i \in 0..(Len(keys) - 1) :
              /\ keys[i + 1] = last'.key
              /\ current_index' = (i + 1) % Len(keys) ]_vars

\* What is left of C18: it holds for every credential the scan of lines 52-59
\* returns; the fallback of lines 62-66 returns entry 0 and leaves the cursor
\* where the call found it.
C18_HoldsForScannedKeys ==
    [][ (last'.op = "get_next_key" /\ ~last'.is_none) =>
          IF ScanKeys(keys, current_index, failed_keys, 0).found
          THEN \E i \in 0..(Len(keys) - 1) :
                  /\ keys[i + 1] = last'.key
                  /\ last'.key \notin failed_keys
                  /\ current_index' = (i + 1) % Len(keys)
          ELSE /\ last'.key = keys[1]
               /\ current_index' = current_index ]_vars

\* C19, as stated: in every state reachable by add_keys, get_next_key,
\* mark_failed and mark_success the cursor is in [0, size).
C19_CursorBelowSize ==
    current_index \in 0..(Len(keys) - 1)

\* C19, amended: the cursor is in [0, size) whenever the pool holds a
\* credential, and it is 0 while the pool is empty.
C19_CursorInRange ==
    /\ keys # <<>> => current_index \in 0..(Len(keys) - 1)
    /\ keys = <<>> => current_index = 0

C19_Witness ==
    /\ last.op = "get_next_key"
    /\ Len(keys) >= 2
    /\ last.key = keys[Len(keys)]
    /\ keys[1] # last.key
    /\ current_index = 0

\* C20: in every reachable state no two entries of the pool are the same
\* credential, and the pool has as many entries as there are credentials
\* with counters.
C20_EntriesUnique ==
    /\ \A i, j \in 1..Len(keys) : keys[i] = keys[j] => i = j
    /\ Len(keys) = Cardinality(DOMAIN key_stats)

\* What is left of C20: the credentials with counters are those of the pool,
\* and the entries are pairwise different right after an add_keys whose input
\* entries, trimmed, are pairwise different.
C20_HoldsForDistinctInput ==
    /\ DOMAIN key_stats = Range(keys)
    /\ ( /\ last.op = "add_keys"
         /\ \A i, j \in 1..Len(last.key) :
               Strip(last.key[i]) = Strip(last.key[j]) => i = j )
       => /\ \A i, j \in 1..Len(keys) : keys[i] = keys[j] => i = j
          /\ Len(keys) = Cardinality(DOMAIN key_stats)

-----------------------------------------------------------------------------
(* Claims about the counters and the configuration, under Spec *)

\* C21: every backend call that extract makes with a credential of the pool
\* adds one to that credential's use counter, whatever the outcome of the
\* attempt, so the use counters grow by the number of backend calls made.
C21_UseCountedOnEveryAttempt ==
    [][ (last'.op \in {"returns", "raises"} /\ call.use_key_manager) =>
          key_stats'[call.api_key].uses = key_stats[call.api_key].uses + 1 ]_vars

\* What is left of C21: the use counter of the credential of the attempt grows
\* by one when the attempt ends the call with the record (line 387), and no
\* use counter changes on any other attempt.
C21_UseCountedOnSuccessOnly ==
    [][ (last'.op \in {"returns", "raises"} /\ call.use_key_manager) =>
          /\ call'.calls = call.calls + 1
          /\ \A k \in DOMAIN key_stats :
                key_stats'[k].uses =
                    IF k = call.api_key /\ call'.pc = "done" /\ call'.outcome = "record"
                    THEN key_stats[k].uses + 1
                    ELSE key_stats[k].uses ]_vars

\* C22: when the list field of the configuration holds K >= 2 different
\* credentials, the extraction main starts next in multi-key mode runs against
\* a pool holding exactly those K credentials and allows K rounds, whether or
\* not the single credential field was filled in as well.
C22_MultiKeyRunsAgainstConfiguredList ==
    [][ LET listed == CleanKeys(last.key)
        IN  ( /\ last.op = "configure"
              /\ Len(listed) >= 2
              /\ \A i, j \in 1..Len(listed) : listed[i] = listed[j] => i = j
              /\ last'.op = "extract"
              /\ call'.use_key_manager
              /\ ~TooShort(call'.pdf_text) )
            => /\ keys = listed
               /\ call'.max_key_attempts = Len(listed) ]_vars

\* What is left of C22: the listed credentials are the pool of the extraction
\* when the single credential field is empty. When it is filled in, the pool is
\* that one credential (none when the field is blank), and the extraction in
\* multi-key mode allows one round.
C22_HoldsWithoutSingleCredential ==
    [][ LET listed == CleanKeys(last.key)
        IN  ( /\ last.op = "configure"
              /\ UseKeyManager(last.key)
              /\ last'.op = "extract"
              /\ call'.use_key_manager
              /\ ~TooShort(call'.pdf_text) )
            => IF last.reason = <<>>
               THEN /\ keys = listed
                    /\ call'.max_key_attempts = Len(listed)
               ELSE /\ keys = CleanKeys(<<last.reason>>)
                    /\ Len(keys) <= 1
                    /\ call'.max_key_attempts = 1 ]_vars

------------------------------------------------------------------------------
(* Claims about repeated normalization, under SpecNorm *)

\* C23: validate_and_clean_data is idempotent: for every raw object whose
\* values are strings and every document type, calling it again on the dict
\* that a call returned returns that same dict.
C23_NormalizeIdempotent ==
    [][ ( /\ norm.pc = "called"
          /\ ~norm.raised
          /\ \A f \in DOMAIN norm.raw : norm.raw[f].t = "str"
          /\ last'.op = "validate_and_clean_data" )
        => /\ ~norm'.raised
           /\ norm'.data = norm.data ]_vars

\* What is left of C23: a call on a returned dict that holds no placeholder
\* returns the same dict, whatever the types of the raw values; a placeholder
\* the first call left is replaced with the empty string by the second.
C23_HoldsButForPaddedPlaceholders ==
    [][ ( /\ norm.pc = "called"
          /\ ~norm.raised
          /\ last'.op = "validate_and_clean_data" )
        => /\ ~norm'.raised
           /\ \A f \in DOMAIN norm.data :
                 norm'.data[f] =
                     IF norm.data[f].t = "str" /\ Lower(norm.data[f].s) \in Placeholders
                     THEN StrVal(<<>>)
                     ELSE norm.data[f]
           /\ DOMAIN norm'.data = DOMAIN norm.data ]_vars

------------------------------------------------------------------------------
(* Claims about the pool's bookkeeping, under Spec *)

\* C24: in every state reached by configuring the pool and any sequence of
\* extract calls, the marked keys are keys of the pool and the keys with
\* counters are exactly the keys of the pool; outside a configuration no
\* counter decreases, and the failure counter of a key grows, by one, exactly
\* in the steps where mark_failed is called with it and classifies the error
\* as rate limiting.
C24_CountersFollowThePool ==
    /\ [](failed_keys \subseteq Range(keys) /\ DOMAIN key_stats = Range(keys))
    /\ [][ last'.op # "configure" =>
             /\ DOMAIN key_stats' = DOMAIN key_stats
             /\ \A k \in DOMAIN key_stats :
                   /\ key_stats'[k].uses >= key_stats[k].uses
                   /\ key_stats'[k].failures =
                         IF /\ last'.op = "raises"
                            /\ last'.flag
                            /\ call.use_key_manager
                            /\ k = call.api_key
                         THEN key_stats[k].failures + 1
                         ELSE key_stats[k].failures ]_vars

\* a call on a pool of two keys has counted a failure of the first, which is
\* marked, and a use of the second
C24_Witness ==
    /\ Len(keys) = 2
    /\ keys[1] # keys[2]
    /\ last.op = "returns"
    /\ call.pc = "done"
    /\ failed_keys = {keys[1]}
    /\ key_stats[keys[1]] = [uses |-> 0, failures |-> 1]
    /\ key_stats[keys[2]] = [uses |-> 1, failures |-> 0]

====
